---- MODULE Spec2Model ----
(***************************************************************************)
(* Konane (Hawaiian checkers): the rules engine, the game loop and the     *)
(* search players of konane.py, linh2.py and linh3.py, and the board of    *)
(* board.py.  The variable `variant` says which source file a behaviour    *)
(* runs; operators take self.size and the variant from the state, as the   *)
(* methods take them from self.                                            *)
(***************************************************************************)
EXTENDS Integers, Sequences, FiniteSets, TLC

VARIABLES variant, size, board, pc, winner, ply, last, call, tally

vars == <<variant, size, board, pc, winner, ply, last, call, tally>>

\* ------------------------------------------------------------------ bounds
\* Boards have the even sizes 2, 4, ..., 2 * MaxHalf.
MaxHalf == 3
\* A game is followed for at most MaxPly accepted moves, and on the boards
\* up to 4x4 for n * n accepted moves, which is to its end when every move
\* after the opening captures a piece.
MaxPly == 5
\* Direct calls (nextBoard, generateMoves, getMove) are made on the live
\* board of a game that has seen at most ProbePly accepted moves.
ProbePly == 3
\* generateMoves, and nextBoard on its moves, are called on the live board of
\* a game that has seen at most GenPly accepted moves.
GenPly == 4
\* playNGames records at most MaxGames games.
MaxGames == 2
\* Search players have depth limits 0 .. MaxDepth.
MaxDepth == 3

\* float("inf"): above every difference of move counts.
Inf == 1000

Sizes == {2 * h : h \in 1..MaxHalf}

Variants == {"konane", "linh2", "linh3", "board"}

Sides == {"X", "O"}

EndedSizes == {2, 4}

PlyBound == IF size \in EndedSizes THEN size * size ELSE MaxPly

\* ------------------------------------------------------------ board state
Abs(x) == IF x < 0 THEN 0 - x ELSE x

\* Python's int(a / b) for b > 0: truncation toward zero.
IntDiv(a, b) == IF a >= 0 THEN a \div b ELSE 0 - ((0 - a) \div b)

\* opponent answering 'X' whatever it is given.
opponent_alwaysX(player) == "X"

opponent(player) ==
    IF variant = "linh2"
    THEN IF player = "X" THEN "O"
         ELSE IF player = "O" THEN "X" ELSE "Invalid player input"
    ELSE IF player = "X" THEN "O" ELSE "X"

\* Konane.reset: `value` starts at 'X', is toggled after every appended cell
\* and once more at the end of a row when the size is even.
RECURSIVE toggled(_, _)
toggled(value, k) ==
    IF k = 0 THEN value
    ELSE LET next == opponent(value)
         IN \* a value that opponent maps to itself stays what it is
            IF next = value THEN value ELSE toggled(next, k - 1)

\* rowStart without the extra toggle at the end of an even row.
RECURSIVE rowStart_noFlip(_)
rowStart_noFlip(i) ==
    IF i = 0 THEN "X" ELSE toggled(rowStart_noFlip(i - 1), size)

RECURSIVE rowStart(_)
rowStart(i) ==
    IF i = 0 THEN "X"
    ELSE LET atEnd == toggled(rowStart(i - 1), size)
         IN IF size % 2 = 0 THEN opponent(atEnd) ELSE atEnd

konaneReset ==
    [r \in 0..(size - 1) |-> [c \in 0..(size - 1) |-> toggled(rowStart(r), c)]]

\* KonaneBoard.resetGame: players = ['X', 'O'], reversed after every row.
RECURSIVE rowPlayers(_)
rowPlayers(i) ==
    IF i = 0 THEN <<"X", "O">>
    ELSE LET p == rowPlayers(i - 1) IN <<p[2], p[1]>>

resetGame ==
    [r \in 0..(size - 1) |-> [c \in 0..(size - 1) |-> rowPlayers(r)[(c % 2) + 1]]]

\* Board.reset of board.py.
boardReset ==
    [r \in 0..(size - 1) |->
        [c \in 0..(size - 1) |-> IF (r + c) % 2 = 0 THEN "X" ELSE "O"]]

reset ==
    IF variant = "konane" THEN konaneReset
    ELSE IF variant = "board" THEN boardReset ELSE resetGame

valid(row, col) == row >= 0 /\ col >= 0 /\ row < size /\ col < size

\* contains without valid(): the indices are taken modulo the size, as
\* Python takes a negative index from the end of the list.
contains_noValid(b, row, col, symbol) == b[row % size][col % size] = symbol

contains(b, row, col, symbol) == valid(row, col) /\ b[row][col] = symbol

countSymbol(b, symbol) ==
    Cardinality({rc \in (0..(size - 1)) \X (0..(size - 1)) : b[rc[1]][rc[2]] = symbol})

distance(r1, c1, r2, c2) == Abs(r1 - r2 + c1 - c2)

openingMove(b) == countSymbol(b, ".") <= 1

\* size/2-1 is exact on the even sizes of the model; linh2 has the 8x8 cell.
makeFirstMove(b) ==
    IF variant = "linh2" THEN << <<3, 3, 3, 3>> >>
    ELSE LET h == (size \div 2) - 1 IN << <<h, h, h, h>> >>

makeSecondMove(b) ==
    IF variant = "linh2" THEN << <<3, 4, 3, 4>> >>
    ELSE LET h == (size \div 2) - 1 IN << <<h, h + 1, h, h + 1>> >>

\* ---------------------------------------------------------- move generator
rd == <<-1, 0, 1, 0>>

cd == <<0, 1, 0, -1>>

\* check advancing factor by 1 instead of 2 between jumps.
RECURSIVE check_step1(_, _, _, _, _, _, _)
check_step1(b, r, c, dr, dc, factor, opp) ==
    IF /\ contains(b, r + factor * dr, c + factor * dc, opp)
       /\ contains(b, r + (factor + 1) * dr, c + (factor + 1) * dc, ".")
    THEN << <<r, c, r + (factor + 1) * dr, c + (factor + 1) * dc>> >>
         \o check_step1(b, r, c, dr, dc, factor + 1, opp)
    ELSE <<>>

RECURSIVE check(_, _, _, _, _, _, _)
check(b, r, c, dr, dc, factor, opp) ==
    IF /\ contains(b, r + factor * dr, c + factor * dc, opp)
       /\ contains(b, r + (factor + 1) * dr, c + (factor + 1) * dc, ".")
    THEN << <<r, c, r + (factor + 1) * dr, c + (factor + 1) * dc>> >>
         \o check(b, r, c, dr, dc, factor + 2, opp)
    ELSE <<>>

\* lists[1] \o ... \o lists[n], in order.
RECURSIVE concat(_, _, _)
concat(lists, lo, hi) ==
    IF lo > hi THEN <<>>
    ELSE IF lo = hi THEN lists[lo]
    ELSE LET mid == (lo + hi) \div 2
         IN concat(lists, lo, mid) \o concat(lists, mid + 1, hi)

\* The inner loop taking the directions from the last to the first.
cellMoves_reversed(b, player, r, c) ==
    concat([i \in 1..Len(rd) |->
               check(b, r, c, rd[Len(rd) + 1 - i], cd[Len(rd) + 1 - i], 1, opponent(player))],
           1, Len(rd))

\* The inner loop of generateMoves: the jumps of the piece at (r, c) in the
\* directions rd[i], cd[i], i in order.
cellMoves(b, player, r, c) ==
    concat([i \in 1..Len(rd) |-> check(b, r, c, rd[i], cd[i], 1, opponent(player))],
           1, Len(rd))

\* The two outer loops of generateMoves, rows then columns: the k-th cell
\* visited (from 0) is at row k \div size, column k % size.
jumpMoves(b, player) ==
    concat([k \in 1..(size * size) |->
               LET r == (k - 1) \div size
                   c == (k - 1) % size
               IN IF b[r][c] = player THEN cellMoves(b, player, r, c) ELSE <<>>],
           1, size * size)

generateMoves(b, player) ==
    IF openingMove(b)
    THEN IF player = "X" THEN makeFirstMove(b) ELSE makeSecondMove(b)
    ELSE jumpMoves(b, player)

\* --------------------------------------------------------- move applicator
\* The jump loop without next[r1+dr][c1+dc] = ".": the jumped piece stays.
RECURSIVE jumpLoop_keepCaptured(_, _, _, _, _, _, _)
jumpLoop_keepCaptured(next, player, r1, c1, dr, dc, jumps) ==
    IF jumps = 0 THEN [status |-> "ok", next |-> next]
    ELSE IF next[r1 + dr][c1 + dc] # opponent(player)
         THEN [status |-> IF variant = "linh2" THEN "ok" ELSE "GameError",
               next |-> next]
         ELSE jumpLoop_keepCaptured([next EXCEPT ![r1][c1] = ".",
                                                 ![r1 + 2 * dr][c1 + 2 * dc] = player],
                                    player, r1 + 2 * dr, c1 + 2 * dc, dr, dc, jumps - 1)

\* The jump loop without next[r1][c1] = ".": the jumping piece is copied.
RECURSIVE jumpLoop_leaveSource(_, _, _, _, _, _, _)
jumpLoop_leaveSource(next, player, r1, c1, dr, dc, jumps) ==
    IF jumps = 0 THEN [status |-> "ok", next |-> next]
    ELSE IF next[r1 + dr][c1 + dc] # opponent(player)
         THEN [status |-> IF variant = "linh2" THEN "ok" ELSE "GameError",
               next |-> next]
         ELSE jumpLoop_leaveSource([next EXCEPT ![r1 + dr][c1 + dc] = ".",
                                                ![r1 + 2 * dr][c1 + 2 * dc] = player],
                                   player, r1 + 2 * dr, c1 + 2 * dc, dr, dc, jumps - 1)

\* The jump loop marking the jumped cell as captured instead of Empty.
RECURSIVE jumpLoop_markCaptured(_, _, _, _, _, _, _)
jumpLoop_markCaptured(next, player, r1, c1, dr, dc, jumps) ==
    IF jumps = 0 THEN [status |-> "ok", next |-> next]
    ELSE IF next[r1 + dr][c1 + dc] # opponent(player)
         THEN [status |-> IF variant = "linh2" THEN "ok" ELSE "GameError",
               next |-> next]
         ELSE jumpLoop_markCaptured([next EXCEPT ![r1][c1] = ".",
                                                 ![r1 + dr][c1 + dc] = "captured",
                                                 ![r1 + 2 * dr][c1 + 2 * dc] = player],
                                    player, r1 + 2 * dr, c1 + 2 * dc, dr, dc, jumps - 1)

\* The jump loop landing on the jumped cell: a jump of one step.
RECURSIVE jumpLoop_oneStep(_, _, _, _, _, _, _)
jumpLoop_oneStep(next, player, r1, c1, dr, dc, jumps) ==
    IF jumps = 0 THEN [status |-> "ok", next |-> next]
    ELSE IF next[r1 + dr][c1 + dc] # opponent(player)
         THEN [status |-> IF variant = "linh2" THEN "ok" ELSE "GameError",
               next |-> next]
         ELSE jumpLoop_oneStep([next EXCEPT ![r1][c1] = ".",
                                            ![r1 + dr][c1 + dc] = player],
                               player, r1 + dr, c1 + dc, dr, dc, jumps - 1)

\* The jump loop of nextBoard on the copy `next`; linh2 returns where the
\* others raise.
RECURSIVE jumpLoop(_, _, _, _, _, _, _)
jumpLoop(next, player, r1, c1, dr, dc, jumps) ==
    IF jumps = 0 THEN [status |-> "ok", next |-> next]
    ELSE IF next[r1 + dr][c1 + dc] # opponent(player)
         THEN [status |-> IF variant = "linh2" THEN "ok" ELSE "GameError",
               next |-> next]
         ELSE jumpLoop([next EXCEPT ![r1][c1] = ".",
                                    ![r1 + dr][c1 + dc] = ".",
                                    ![r1 + 2 * dr][c1 + 2 * dc] = player],
                       player, r1 + 2 * dr, c1 + 2 * dc, dr, dc, jumps - 1)

\* next = board instead of a deep copy: the writes land in the caller's board.
deepcopy_alias(b, written) == written

\* next = copy.deepcopy(board) makes `next` a new object: whatever nextBoard
\* then writes into `next` (its cells at the end are `written`), the cells
\* of the caller's board object stay those of b.
deepcopy(b, written) == b

\* nextBoard: status, the returned board `next` (meaningful when status is
\* "ok") and `arg`, the cells of the caller's board object after the call.
nextBoard(b, player, move) ==
    LET r1 == move[1]
        c1 == move[2]
        r2 == move[3]
        c2 == move[4]
        next == b
        fail == [status |-> IF variant = "linh2" THEN "ok" ELSE "GameError",
                 next |-> next]
        dist == distance(r1, c1, r2, c2)
        res ==
            IF ~(valid(r1, c1) /\ valid(r2, c2)) THEN fail
            ELSE IF next[r1][c1] # player THEN fail
            ELSE IF dist = 0
                 THEN IF openingMove(b)
                      THEN [status |-> "ok", next |-> [next EXCEPT ![r1][c1] = "."]]
                      ELSE fail
            ELSE IF next[r2][c2] # "." THEN fail
            ELSE jumpLoop(next, player, r1, c1,
                          IntDiv(r2 - r1, dist), IntDiv(c2 - c1, dist),
                          IntDiv(dist, 2))
    IN [status |-> res.status, next |-> res.next, arg |-> deepcopy(b, res.next)]

\* ---------------------------------------------------------- search players
\* What a search returns beside the value: None at a cutoff, the initial
\* best_move = 0, or a move of the node.
None == [kind |-> "None", move |-> <<>>]

noBest == [kind |-> "int", move |-> <<>>]

Best(m) == [kind |-> "move", move |-> m]

\* evaluation testing the searching player's own moves first.
evaluation_lossFirst(b, me) ==
    LET moves == generateMoves(b, me)
        opponent_moves == generateMoves(b, opponent(me))
    IN IF Len(moves) = 0 THEN 0 - Inf
       ELSE IF Len(opponent_moves) = 0 THEN Inf
       ELSE Len(moves) - Len(opponent_moves)

\* evaluation / eval of the search players, for the searching player `me`.
evaluation(b, me) ==
    LET moves == generateMoves(b, me)
        opponent_moves == generateMoves(b, opponent(me))
    IN IF Len(opponent_moves) = 0 THEN Inf
       ELSE IF Len(moves) = 0 THEN 0 - Inf
       ELSE Len(moves) - Len(opponent_moves)

\* isTerminal: konane.py tests len(moves) == 0 in place; linh2 and linh3 pass
\* the board to isTerminal in minimax, the move list in minimaxAlphaBeta.
isTerminal(list) == Len(list) = 0

boardRows(b) == [i \in 1..size |-> b[i - 1]]

\* The player the recursive call at depth + 1 is given.
nextPlayer(depth, me) == IF depth % 2 = 0 THEN opponent(me) ELSE me

\* A local assigned once is bound as the element of a singleton set, so that
\* the call it holds is computed once: CHOOSE out \in {F(x) : x \in {e}} : TRUE
\* is F(e).
\* A search result carries, beside (value, move), what the search did: the
\* nodes it visited, the nextBoard calls it made and the number of
\* iterations of its own loop.
NoTrace == [nodes |-> {}, applied |-> {}, explored |-> 0]

Raised ==
    [val |-> 0, move |-> None, err |-> TRUE, nodes |-> {}, applied |-> {}, explored |-> 0]

\* The nextBoard call of a loop: board, side, move, outcome and the cells of
\* the board object it was given, after the call.
Applied(b, player, move, nb) ==
    [b |-> b, player |-> player, move |-> move, status |-> nb.status, arg |-> nb.arg]

\* r with the trace of the child search and of the nextBoard call before it.
Traced(r, child, app) ==
    [r EXCEPT !.nodes = @ \cup child.nodes, !.applied = (@ \cup child.applied) \cup {app},
              !.explored = @ + 1]

\* The node a call of minimax / minimaxAlphaBeta is, with what it returned.
Node(kind, b, depth, current_player, alpha, beta, moves, cutoff, r) ==
    [kind |-> kind, b |-> b, depth |-> depth, player |-> current_player,
     alpha |-> alpha, beta |-> beta, nmoves |-> Len(moves), cutoff |-> cutoff,
     val |-> r.val, move |-> r.move, explored |-> r.explored]

RECURSIVE minimax(_, _, _, _, _)
RECURSIVE minimaxLoop(_, _, _, _, _, _, _, _, _)
\* The loop applying each move for the side that did not generate it.
minimaxLoop_otherSide(b, depth, current_player, me, limit, moves, i, curr_backedup_val, best_move) ==
    IF i > Len(moves)
    THEN [val |-> curr_backedup_val, move |-> best_move, err |-> FALSE,
          nodes |-> {}, applied |-> {}, explored |-> 0]
    ELSE CHOOSE res \in {
         LET app == Applied(b, opponent(current_player), moves[i], nb)
         IN IF nb.status # "ok" THEN Traced(Raised, NoTrace, app)
            ELSE CHOOSE out \in {
                    IF child.err THEN Traced(Raised, child, app)
                    ELSE IF IF depth % 2 = 0
                            THEN child.val > curr_backedup_val
                            ELSE child.val < curr_backedup_val
                         THEN Traced(minimaxLoop(nb.arg, depth, current_player, me, limit,
                                                 moves, i + 1, child.val, Best(moves[i])),
                                     child, app)
                         ELSE Traced(minimaxLoop(nb.arg, depth, current_player, me, limit,
                                                 moves, i + 1, curr_backedup_val, best_move),
                                     child, app)
                 : child \in {minimax(nb.next, depth + 1, nextPlayer(depth, me), me, limit)}} : TRUE
         : nb \in {nextBoard(b, opponent(current_player), moves[i])}} : TRUE

\* The for loop of a MAX (isMax) or MIN node over moves[i..].
minimaxLoop(b, depth, current_player, me, limit, moves, i, curr_backedup_val, best_move) ==
    IF i > Len(moves)
    THEN [val |-> curr_backedup_val, move |-> best_move, err |-> FALSE,
          nodes |-> {}, applied |-> {}, explored |-> 0]
    ELSE CHOOSE res \in {
         LET app == Applied(b, current_player, moves[i], nb)
         IN IF nb.status # "ok" THEN Traced(Raised, NoTrace, app)
            ELSE CHOOSE out \in {
                    IF child.err THEN Traced(Raised, child, app)
                    ELSE IF IF depth % 2 = 0
                            THEN child.val > curr_backedup_val
                            ELSE child.val < curr_backedup_val
                         THEN Traced(minimaxLoop(nb.arg, depth, current_player, me, limit,
                                                 moves, i + 1, child.val, Best(moves[i])),
                                     child, app)
                         ELSE Traced(minimaxLoop(nb.arg, depth, current_player, me, limit,
                                                 moves, i + 1, curr_backedup_val, best_move),
                                     child, app)
                 : child \in {minimax(nb.next, depth + 1, nextPlayer(depth, me), me, limit)}} : TRUE
         : nb \in {nextBoard(b, current_player, moves[i])}} : TRUE

\* minimax testing the depth limit one level late: depth == limit + 1.
minimax_pastLimit(b, depth, current_player, me, limit) ==
    LET moves == generateMoves(b, current_player)
        terminal == IF variant = "konane" THEN Len(moves) = 0
                    ELSE isTerminal(boardRows(b))
        cutoff == depth = limit + 1 \/ terminal
    IN CHOOSE out \in {
                IF r.err THEN r
                ELSE [r EXCEPT !.nodes = @ \cup {Node("minimax", b, depth, current_player,
                                                      0 - Inf, Inf, moves, cutoff, r)}]
             : r \in {IF cutoff
             THEN [val |-> evaluation(b, me), move |-> None, err |-> FALSE,
                   nodes |-> {}, applied |-> {}, explored |-> 0]
             ELSE minimaxLoop(b, depth, current_player, me, limit, moves, 1,
                              IF depth % 2 = 0 THEN 0 - Inf ELSE Inf, noBest)}} : TRUE

minimax(b, depth, current_player, me, limit) ==
    LET moves == generateMoves(b, current_player)
        terminal == IF variant = "konane" THEN Len(moves) = 0
                    ELSE isTerminal(boardRows(b))
        cutoff == depth = limit \/ terminal
    IN CHOOSE out \in {
                IF r.err THEN r
                ELSE [r EXCEPT !.nodes = @ \cup {Node("minimax", b, depth, current_player,
                                                      0 - Inf, Inf, moves, cutoff, r)}]
             : r \in {IF cutoff
             THEN [val |-> evaluation(b, me), move |-> None, err |-> FALSE,
                   nodes |-> {}, applied |-> {}, explored |-> 0]
             ELSE minimaxLoop(b, depth, current_player, me, limit, moves, 1,
                              IF depth % 2 = 0 THEN 0 - Inf ELSE Inf, noBest)}} : TRUE

RECURSIVE minimaxAlphaBeta(_, _, _, _, _, _, _)
RECURSIVE alphaBetaLoop(_, _, _, _, _, _, _, _, _, _)
\* The loop without the test alpha >= beta at a MAX node.
alphaBetaLoop_noMaxCutoff(b, depth, current_player, me, limit, moves, i, alpha, beta, best_move) ==
    IF i > Len(moves)
    THEN [val |-> IF depth % 2 = 0 THEN alpha ELSE beta, move |-> best_move,
          err |-> FALSE, nodes |-> {}, applied |-> {}, explored |-> 0]
    ELSE CHOOSE res \in {
         LET app == Applied(b, current_player, moves[i], nb)
         IN IF nb.status # "ok" THEN Traced(Raised, NoTrace, app)
            ELSE CHOOSE out \in {
                    IF child.err THEN Traced(Raised, child, app)
                    ELSE IF depth % 2 = 0
                    THEN LET a == IF child.val > alpha THEN child.val ELSE alpha
                             m == IF child.val > alpha THEN Best(moves[i]) ELSE best_move
                         IN Traced(alphaBetaLoop(nb.arg, depth, current_player, me, limit,
                                                 moves, i + 1, a, beta, m),
                                   child, app)
                    ELSE LET bt == IF child.val > beta THEN child.val ELSE beta
                             m == IF child.val > beta THEN Best(moves[i]) ELSE best_move
                         IN IF alpha >= bt
                            THEN Traced([val |-> alpha, move |-> m, err |-> FALSE,
                                         nodes |-> {}, applied |-> {}, explored |-> 0], child, app)
                            ELSE Traced(alphaBetaLoop(nb.arg, depth, current_player, me, limit,
                                                      moves, i + 1, alpha, bt, m),
                                        child, app)
                 : child \in {minimaxAlphaBeta(nb.next, depth + 1,
                                               nextPlayer(depth, me), me, limit,
                                               alpha, beta)}} : TRUE
         : nb \in {nextBoard(b, current_player, moves[i])}} : TRUE

alphaBetaLoop(b, depth, current_player, me, limit, moves, i, alpha, beta, best_move) ==
    IF i > Len(moves)
    THEN [val |-> IF depth % 2 = 0 THEN alpha ELSE beta, move |-> best_move,
          err |-> FALSE, nodes |-> {}, applied |-> {}, explored |-> 0]
    ELSE CHOOSE res \in {
         LET app == Applied(b, current_player, moves[i], nb)
         IN IF nb.status # "ok" THEN Traced(Raised, NoTrace, app)
            ELSE CHOOSE out \in {
                    IF child.err THEN Traced(Raised, child, app)
                    ELSE IF depth % 2 = 0
                    THEN LET a == IF child.val > alpha THEN child.val ELSE alpha
                             m == IF child.val > alpha THEN Best(moves[i]) ELSE best_move
                         IN IF a >= beta
                            THEN Traced([val |-> beta, move |-> m, err |-> FALSE,
                                         nodes |-> {}, applied |-> {}, explored |-> 0], child, app)
                            ELSE Traced(alphaBetaLoop(nb.arg, depth, current_player, me, limit,
                                                      moves, i + 1, a, beta, m),
                                        child, app)
                    ELSE LET bt == IF child.val > beta THEN child.val ELSE beta
                             m == IF child.val > beta THEN Best(moves[i]) ELSE best_move
                         IN IF alpha >= bt
                            THEN Traced([val |-> alpha, move |-> m, err |-> FALSE,
                                         nodes |-> {}, applied |-> {}, explored |-> 0], child, app)
                            ELSE Traced(alphaBetaLoop(nb.arg, depth, current_player, me, limit,
                                                      moves, i + 1, alpha, bt, m),
                                        child, app)
                 : child \in {minimaxAlphaBeta(nb.next, depth + 1,
                                               nextPlayer(depth, me), me, limit,
                                               alpha, beta)}} : TRUE
         : nb \in {nextBoard(b, current_player, moves[i])}} : TRUE

minimaxAlphaBeta(b, depth, current_player, me, limit, alpha, beta) ==
    LET moves == generateMoves(b, current_player)
        cutoff == depth = limit \/ isTerminal(moves)
    IN CHOOSE out \in {
                IF r.err THEN r
                ELSE [r EXCEPT !.nodes = @ \cup {Node("alphabeta", b, depth, current_player,
                                                      alpha, beta, moves, cutoff, r)}]
             : r \in {IF cutoff
             THEN [val |-> evaluation(b, me), move |-> None, err |-> FALSE,
                   nodes |-> {}, applied |-> {}, explored |-> 0]
             ELSE alphaBetaLoop(b, depth, current_player, me, limit, moves, 1,
                                alpha, beta, noBest)}} : TRUE

\* The for loop of getMove over moves[i..]: kind is "minimax" or "alphabeta".
RECURSIVE getMoveLoop(_, _, _, _, _, _, _, _)
\* The loop keeping the latest of the moves that tie for the best value.
getMoveLoop_lastTie(kind, b, me, limit, moves, i, best_val, best_index) ==
    IF i > Len(moves)
    THEN [move |-> moves[best_index], val |-> best_val, err |-> FALSE, board |-> b,
          nodes |-> {}, applied |-> {}, explored |-> 0]
    ELSE CHOOSE res \in {
         LET app == Applied(b, me, moves[i], nb)
             raised == [move |-> <<>>, val |-> best_val, err |-> TRUE, board |-> nb.arg,
                        nodes |-> {}, applied |-> {}, explored |-> 0]
         IN IF nb.status # "ok" THEN Traced(raised, NoTrace, app)
            ELSE CHOOSE out \in {
                    IF child.err THEN Traced(raised, child, app)
                    ELSE IF child.val >= best_val
                         THEN Traced(getMoveLoop(kind, nb.arg, me, limit, moves, i + 1,
                                                 child.val, i), child, app)
                         ELSE Traced(getMoveLoop(kind, nb.arg, me, limit, moves, i + 1,
                                                 best_val, best_index), child, app)
                 : child \in {IF kind = "minimax"
                              THEN minimax(nb.next, 0, opponent(me), me, limit)
                              ELSE minimaxAlphaBeta(nb.next, 0, opponent(me), me, limit,
                                                    0 - Inf, Inf)}} : TRUE
         : nb \in {nextBoard(b, me, moves[i])}} : TRUE

getMoveLoop(kind, b, me, limit, moves, i, best_val, best_index) ==
    IF i > Len(moves)
    THEN [move |-> moves[best_index], val |-> best_val, err |-> FALSE, board |-> b,
          nodes |-> {}, applied |-> {}, explored |-> 0]
    ELSE CHOOSE res \in {
         LET app == Applied(b, me, moves[i], nb)
             raised == [move |-> <<>>, val |-> best_val, err |-> TRUE, board |-> nb.arg,
                        nodes |-> {}, applied |-> {}, explored |-> 0]
         IN IF nb.status # "ok" THEN Traced(raised, NoTrace, app)
            ELSE CHOOSE out \in {
                    IF child.err THEN Traced(raised, child, app)
                    ELSE IF child.val > best_val
                         THEN Traced(getMoveLoop(kind, nb.arg, me, limit, moves, i + 1,
                                                 child.val, i), child, app)
                         ELSE Traced(getMoveLoop(kind, nb.arg, me, limit, moves, i + 1,
                                                 best_val, best_index), child, app)
                 : child \in {IF kind = "minimax"
                              THEN minimax(nb.next, 0, opponent(me), me, limit)
                              ELSE minimaxAlphaBeta(nb.next, 0, opponent(me), me, limit,
                                                    0 - Inf, Inf)}} : TRUE
         : nb \in {nextBoard(b, me, moves[i])}} : TRUE

\* getMove conceding ([]) when no candidate move is better than -inf.
getMove_concedeLost(kind, b, me, limit) ==
    LET moves == generateMoves(b, me)
        res == getMoveLoop(kind, b, me, limit, moves, 1, 0 - Inf, 1)
    IN IF Len(moves) = 0
       THEN [move |-> <<>>, val |-> 0 - Inf, err |-> FALSE, board |-> b,
             nodes |-> {}, applied |-> {}, explored |-> 0]
       ELSE IF res.val = 0 - Inf THEN [res EXCEPT !.move = <<>>] ELSE res

\* getMove of MinimaxPlayer / MinimaxAlphaBetaPlayer playing `me` with the
\* given depth limit: the move returned ([] is <<>>), best_val and `board`,
\* the cells of the board object it was given, after the call.
getMove(kind, b, me, limit) ==
    LET moves == generateMoves(b, me)
    IN IF Len(moves) = 0
       THEN [move |-> <<>>, val |-> 0 - Inf, err |-> FALSE, board |-> b,
             nodes |-> {}, applied |-> {}, explored |-> 0]
       ELSE getMoveLoop(kind, b, me, limit, moves, 1, 0 - Inf, 1)

\* ------------------------------------------------------------- game loop
\* The two players playNGames is given.
Players == {"p1", "p2"}

\* Player.wins and Player.losses of p1 and p2, the player playNGames has as
\* `first` (the other is `second`) and the number of games it has recorded.
NoTally ==
    [first |-> "p1", games |-> 0,
     wins |-> [p \in Players |-> 0], losses |-> [p \in Players |-> 0]]

won(t, p) == [t EXCEPT !.wins[p] = @ + 1]

\* lost() that leaves the counter as it is.
lost_noCount(t, p) == t

lost(t, p) == [t EXCEPT !.losses[p] = @ + 1]

NoCall ==
    [op |-> "none", player |-> "X", move |-> <<>>, moves |-> <<>>,
     status |-> "none", before |-> <<>>, next |-> <<>>,
     kind |-> "none", limit |-> 0, val |-> 0, ret |-> "none"]

Init ==
    /\ variant \in Variants
    /\ size \in Sizes
    /\ board = reset
    /\ pc = IF variant = "board" THEN "none" ELSE "X"
    /\ winner = "none"
    /\ ply = 0
    /\ last = NoCall
    /\ call = NoCall
    /\ tally = NoTally

\* A turn after which the same side is asked again.
Turn_sameSide(p) ==
    /\ pc = p
    /\ call.op = "none"
    /\ ply < PlyBound
    /\ LET moves == generateMoves(board, p)
       IN IF moves = <<>>
          THEN /\ pc' = "over"
               /\ winner' = (IF p = "X" THEN "O" ELSE "X")
               /\ UNCHANGED <<board, ply, last>>
          ELSE \E i \in 1..Len(moves) :
                 LET res == nextBoard(board, p, moves[i])
                 IN /\ last' = [NoCall EXCEPT !.op = "makeMove", !.player = p,
                                              !.move = moves[i], !.moves = moves,
                                              !.status = res.status,
                                              !.before = board, !.next = res.next]
                    /\ IF res.status = "ok"
                       THEN /\ board' = res.next
                            /\ pc' = p
                            /\ ply' = ply + 1
                            /\ UNCHANGED winner
                       ELSE /\ board' = res.arg
                            /\ pc' = "over"
                            /\ winner' = (IF p = "X" THEN "O" ELSE "X")
                            /\ UNCHANGED ply
    /\ UNCHANGED <<variant, size, tally, call>>

\* One turn of playOneGame for side p with a built-in player (RandomPlayer):
\* getMove picks any generated move, makeMove applies it.
Turn(p) ==
    /\ pc = p
    /\ call.op = "none"
    /\ ply < PlyBound
    /\ LET moves == generateMoves(board, p)
       IN IF moves = <<>>
          THEN /\ pc' = "over"
               /\ winner' = (IF p = "X" THEN "O" ELSE "X")
               /\ UNCHANGED <<board, ply, last>>
          ELSE \E i \in 1..Len(moves) :
                 LET res == nextBoard(board, p, moves[i])
                 IN /\ last' = [NoCall EXCEPT !.op = "makeMove", !.player = p,
                                              !.move = moves[i], !.moves = moves,
                                              !.status = res.status,
                                              !.before = board, !.next = res.next]
                    /\ IF res.status = "ok"
                       THEN /\ board' = res.next
                            /\ pc' = (IF p = "X" THEN "O" ELSE "X")
                            /\ ply' = ply + 1
                            /\ UNCHANGED winner
                       ELSE /\ board' = res.arg
                            /\ pc' = "over"
                            /\ winner' = (IF p = "X" THEN "O" ELSE "X")
                            /\ UNCHANGED ply
    /\ UNCHANGED <<variant, size, tally, call>>

\* Board.reset on a board.py Board; Konane.reset / resetGame at the start
\* of the next playOneGame.
Reset ==
    /\ pc \in {"none", "over", "recorded"}
    /\ call.op = "none"
    /\ board' = reset
    /\ pc' = (IF variant = "board" THEN "none" ELSE "X")
    /\ winner' = "none"
    /\ ply' = 0
    /\ last' = NoCall
    /\ UNCHANGED <<variant, size, tally, call>>

Next ==
    \/ \E p \in Sides : Turn(p)
    \/ Reset

Spec == Init /\ [][Next]_vars

\* playNGames without first, second = second, first.
RecordGame_noSwap ==
    /\ pc = "over"
    /\ call.op = "none"
    /\ tally.games < MaxGames
    /\ LET first == tally.first
           second == IF first = "p1" THEN "p2" ELSE "p1"
           counted == IF winner = "X" THEN lost(won(tally, first), second)
                      ELSE won(lost(tally, first), second)
       IN tally' = [counted EXCEPT !.games = @ + 1]
    /\ pc' = "recorded"
    /\ UNCHANGED <<variant, size, board, winner, ply, last, call>>

\* playNGames after playOneGame has returned the winner's side: the winner
\* won(), the other lost(), and first and second are exchanged.
RecordGame ==
    /\ pc = "over"
    /\ call.op = "none"
    /\ tally.games < MaxGames
    /\ LET first == tally.first
           second == IF first = "p1" THEN "p2" ELSE "p1"
           counted == IF winner = "X" THEN lost(won(tally, first), second)
                      ELSE won(lost(tally, first), second)
       IN tally' = [counted EXCEPT !.first = second, !.games = @ + 1]
    /\ pc' = "recorded"
    /\ UNCHANGED <<variant, size, board, winner, ply, last, call>>

\* Games played by playNGames, or by playOneGame called on its own.
NextGames ==
    \/ Next
    \/ RecordGame

SpecGames == Init /\ [][NextGames]_vars

\* ------------------------------------------------- direct calls on a game
\* The coordinates a caller may pass: every cell and one step outside.
Coords == (0 - 1)..size

AllMoves == Coords \X Coords \X Coords \X Coords

Running == pc \in Sides /\ call.op = "none"

\* nextBoard(self.board, p, m) for an arbitrary move, early in a game.
Early == Running /\ ply <= ProbePly

Midgame == Running /\ ply <= GenPly

Apply(p, m) ==
    /\ LET res == nextBoard(board, p, m)
       IN /\ call' = [NoCall EXCEPT !.op = "nextBoard", !.player = p, !.move = m,
                                    !.status = res.status, !.before = board,
                                    !.next = res.next]
          /\ board' = res.arg
    /\ UNCHANGED <<variant, size, tally, pc, winner, ply, last>>

\* nextBoard on a move of generateMoves(self.board, p), as evaluation and the
\* searches pair them, for either side.
ApplyGenerated(p) ==
    /\ Midgame
    /\ LET moves == generateMoves(board, p)
       IN \E i \in 1..Len(moves) :
            LET res == nextBoard(board, p, moves[i])
            IN /\ call' = [NoCall EXCEPT !.op = "nextBoard", !.player = p,
                                         !.move = moves[i], !.moves = moves,
                                         !.status = res.status, !.before = board,
                                         !.next = res.next]
               /\ board' = res.arg
    /\ UNCHANGED <<variant, size, tally, pc, winner, ply, last>>

\* generateMoves(self.board, p) for either side.
Generate(p) ==
    /\ Midgame
    /\ call' = [NoCall EXCEPT !.op = "generateMoves", !.player = p,
                              !.moves = generateMoves(board, p), !.before = board]
    /\ UNCHANGED <<variant, size, tally, board, pc, winner, ply, last>>

\* getMove(self.board) of a search player on its turn, early in a game.
GetMove(kind, limit) ==
    /\ \E res \in {getMove(kind, board, pc, limit)} :
          /\ call' = [NoCall EXCEPT !.op = "getMove", !.player = pc, !.kind = kind,
                                    !.limit = limit, !.move = res.move, !.val = res.val,
                                    !.status = IF res.err THEN "GameError" ELSE "ok",
                                    !.before = board]
          /\ board' = res.board
    /\ UNCHANGED <<variant, size, tally, pc, winner, ply, last>>

\* The call returns to its caller.
Return ==
    /\ call.op # "none"
    /\ call' = NoCall
    /\ UNCHANGED <<variant, size, tally, board, pc, winner, ply, last>>

\* The game with the move generator, and the applicator on the generator's
\* moves, called on its live board.
NextGenerated ==
    \/ Next
    \/ \E p \in Sides : ApplyGenerated(p)
    \/ \E p \in Sides : Generate(p)
    \/ Return

SpecGenerated == Init /\ [][NextGenerated]_vars

\* The game with direct calls of the rules engine on its live board.
NextCalls ==
    \/ NextGenerated
    \/ Early /\ \E p \in Sides : \E m \in AllMoves : Apply(p, m)

SpecCalls == Init /\ [][NextCalls]_vars

\* The depth limits of the search players asked for a move on a board of
\* the live size: the deepest searches are run on the boards up to 4x4.
DeepSizes == {2, 4}

Limits == IF size \in DeepSizes THEN 0..MaxDepth ELSE 0..(MaxDepth - 1)

\* The game with the search players asked for a move on its live board.
NextSearch ==
    \/ Next
    \/ Early /\ \E kind \in {"minimax", "alphabeta"} : \E limit \in Limits :
                  GetMove(kind, limit)
    \/ Return

SpecSearch == Init /\ [][NextSearch]_vars

\* opponent(p) and contains(self.board, row, col, symbol) called on a game:
\* `ret` is what the call returns.
Opponent(p) ==
    /\ Midgame
    /\ call' = [NoCall EXCEPT !.op = "opponent", !.player = p, !.ret = opponent(p)]
    /\ UNCHANGED <<variant, size, tally, board, pc, winner, ply, last>>

Symbols == {"X", "O", "."}

Contains(row, col, symbol) ==
    /\ call' = [NoCall EXCEPT !.op = "contains", !.move = <<row, col>>,
                              !.player = symbol, !.before = board,
                              !.ret = contains(board, row, col, symbol)]
    /\ UNCHANGED <<variant, size, tally, board, pc, winner, ply, last>>

\* The game with the helpers of the rules engine called on its live board.
NextRules ==
    \/ Next
    \/ \E p \in Sides : Opponent(p)
    \/ Early /\ \E row \in Coords : \E col \in Coords : \E symbol \in Symbols :
                  Contains(row, col, symbol)
    \/ Return

SpecRules == Init /\ [][NextRules]_vars

\* ------------------------------------------------- evaluation on any board
\* evaluation is a function of the board and the player's side: that of
\* konane.py is applied to every board that keeps X on the even cells and O on the odd
\* cells (jumps keep the colour of a piece's cell), pieces removed at will.
EvalSizes == {2, 4}

Position(kept) ==
    [r \in 0..(size - 1) |-> [c \in 0..(size - 1) |->
        IF <<r, c>> \in kept THEN reset[r][c] ELSE "."]]

InitEval ==
    /\ variant = "konane"
    /\ size \in EvalSizes
    /\ board \in {Position(kept) :
                    kept \in SUBSET ((0..(size - 1)) \X (0..(size - 1)))}
    /\ pc = "none"
    /\ winner = "none"
    /\ ply = 0
    /\ last = NoCall
    /\ call = NoCall
    /\ tally = NoTally

\* evaluation(self.board) of a search player initialised with side `me`.
Evaluate(me) ==
    /\ call.op = "none"
    /\ call' = [NoCall EXCEPT !.op = "evaluation", !.player = me,
                              !.val = evaluation(board, me), !.before = board]
    /\ UNCHANGED <<variant, size, tally, board, pc, winner, ply, last>>

NextEval ==
    \/ \E me \in Sides : Evaluate(me)
    \/ Return

SpecEval == InitEval /\ [][NextEval]_vars

\* ------------------------------------------------------------ properties
InSeq(x, seq) == \E i \in 1..Len(seq) : seq[i] = x

ToSet(seq) == {seq[i] : i \in 1..Len(seq)}

Other(side) == IF side = "X" THEN "O" ELSE "X"

\* The cell at (r, c), "off" outside the board.
At(b, r, c) ==
    IF r \in 0..(size - 1) /\ c \in 0..(size - 1) THEN b[r][c] ELSE "off"

Cells == (0..(size - 1)) \X (0..(size - 1))

Count(b, symbol) == Cardinality({rc \in Cells : b[rc[1]][rc[2]] = symbol})

\* Steps between the two cells of a move, rows plus columns.
Steps(m) == Abs(m[3] - m[1]) + Abs(m[4] - m[2])

Straight(m) == m[1] = m[3] \/ m[2] = m[4]

Sgn(x) == IF x > 0 THEN 1 ELSE IF x < 0 THEN 0 - 1 ELSE 0

\* The cell j steps from the source of a straight move m toward its end.
Toward(m, j) == <<m[1] + j * Sgn(m[3] - m[1]), m[2] + j * Sgn(m[4] - m[2])>>

FromVariants == {"konane", "linh3"}

\* The jumps of the rules: from a cell of `side`, in an axis direction, over
\* k >= 1 opponent pieces each followed by an Empty cell.
LegalJumps(b, side) ==
    {m \in Cells \X Cells :
        LET mv == <<m[1][1], m[1][2], m[2][1], m[2][2]>>
        IN /\ b[mv[1]][mv[2]] = side
           /\ Straight(mv) /\ Steps(mv) >= 2 /\ Steps(mv) % 2 = 0
           /\ \A j \in 1..(Steps(mv) \div 2) :
                 /\ At(b, Toward(mv, 2 * j - 1)[1], Toward(mv, 2 * j - 1)[2]) = Other(side)
                 /\ At(b, Toward(mv, 2 * j)[1], Toward(mv, 2 * j)[2]) = "."}

Flat(m) == <<m[1][1], m[1][2], m[2][1], m[2][2]>>

Generated(c) == InSeq(c.move, generateMoves(c.before, c.player))

\* C1: on every board reachable by legal play and for either side, a move
\* returned by generateMoves is accepted by nextBoard (no GameError).
C1_GeneratedMoveAccepted ==
    (call.op = "nextBoard" /\ Generated(call)) => call.status = "ok"

\* C2: getMove of the alpha-beta player returns the move and the backed-up
\* value of the minimax player on the same board, side and depth limit.
C2_AlphaBetaAgrees ==
    (call.op = "getMove" /\ call.kind = "alphabeta") =>
        LET mm == getMove("minimax", call.before, call.player, call.limit)
        IN call.move = mm.move /\ call.val = mm.val

\* C3: on a non-opening board generateMoves returns exactly the jumps of the
\* rules for the side: none missing, no other move.
C3_JumpsExact ==
    (call.op = "generateMoves" /\ Count(call.before, ".") >= 2) =>
        ToSet(call.moves) = {Flat(m) : m \in LegalJumps(call.before, call.player)}

C3_Witness ==
    /\ call.op = "generateMoves" /\ Count(call.before, ".") >= 2
    /\ \E i \in 1..Len(call.moves) : Steps(call.moves[i]) = 4

\* The board a jump of `side` along move m leaves: source and captured
\* cells Empty, the end cell holding side, every other cell as before.
AfterJump(b, side, m) ==
    [r \in 0..(size - 1) |-> [c \in 0..(size - 1) |->
        IF <<r, c>> = <<m[3], m[4]>> THEN side
        ELSE IF <<r, c>> = <<m[1], m[2]>> THEN "."
        ELSE IF \E j \in 1..(Steps(m) \div 2) : <<r, c>> = Toward(m, 2 * j - 1) THEN "."
        ELSE b[r][c]]]

AfterRemoval(b, m) ==
    [r \in 0..(size - 1) |-> [c \in 0..(size - 1) |->
        IF <<r, c>> = <<m[1], m[2]>> THEN "." ELSE b[r][c]]]

\* C4: in konane.py and linh3.py, nextBoard on a generated move returns, for
\* a jump, the board with the source and the captured cells Empty, the end
\* cell holding the side and all other cells unchanged; for an opening
\* removal, the board with only the source cell changed, to Empty.
C4_AppliedMoveFrame ==
    (/\ call.op = "nextBoard" /\ variant \in FromVariants
     /\ Generated(call) /\ call.status = "ok") =>
        call.next = IF Steps(call.move) = 0
                    THEN AfterRemoval(call.before, call.move)
                    ELSE AfterJump(call.before, call.player, call.move)

C4_Witness ==
    /\ call.op = "nextBoard" /\ variant \in FromVariants
    /\ Generated(call) /\ call.status = "ok"
    /\ Steps(call.move) = 4

\* C5: after a non-opening move accepted in a game, the non-Empty cells
\* are fewer by the number k >= 1 of captured pieces, the mover has as many
\* pieces as before and the opponent k fewer.
C5_Conservation ==
    (last.op = "makeMove" /\ last.status = "ok" /\ Count(last.before, ".") >= 2) =>
        LET k == Steps(last.move) \div 2
        IN /\ k >= 1
           /\ Count(last.next, ".") = Count(last.before, ".") + k
           /\ board = last.next
           /\ countSymbol(board, last.player) = countSymbol(last.before, last.player)
           /\ countSymbol(board, Other(last.player))
                = countSymbol(last.before, Other(last.player)) - k

C5_Witness ==
    /\ last.op = "makeMove" /\ last.status = "ok" /\ Count(last.before, ".") >= 2
    /\ Steps(last.move) = 4

\* The conditions under which the applicator must fail.
Rejectable(b, side, m) ==
    \/ At(b, m[1], m[2]) = "off"
    \/ At(b, m[3], m[4]) = "off"
    \/ At(b, m[1], m[2]) # side
    \/ Steps(m) = 0 /\ Count(b, ".") > 1
    \/ Steps(m) # 0 /\ At(b, m[3], m[4]) # "."
    \/ /\ Steps(m) # 0 /\ Straight(m)
       /\ \E j \in 1..Steps(m) :
            j % 2 = 1 /\ j < Steps(m)
            /\ At(b, Toward(m, j)[1], Toward(m, j)[2]) # Other(side)

\* C6: in konane.py and linh3.py nextBoard raises GameError whenever an end
\* of the move is out of bounds, the source does not hold the mover's
\* piece, the move has zero distance on a non-opening board, the move has
\* non-zero distance and its end cell is not Empty, or a capture cell on
\* the path does not hold the opponent's piece.
C6_InvalidMoveRaises ==
    (/\ call.op = "nextBoard" /\ variant \in FromVariants
     /\ Rejectable(call.before, call.player, call.move)) =>
        call.status = "GameError"

\* C7: in konane.py and linh3.py nextBoard raises GameError for every move
\* between two different cells whose distance is not a positive even
\* number of steps.
C7_OddDistanceRaises ==
    (/\ call.op = "nextBoard" /\ variant \in FromVariants
     /\ Steps(call.move) % 2 = 1) =>
        call.status = "GameError"

\* C8: nextBoard never changes the board passed to it, whether it returns
\* or raises: after the call the caller's board has the cells it had.
C8_ArgumentUnchanged ==
    call.op = "nextBoard" => board = call.before

C8_Witness ==
    /\ call.op = "nextBoard" /\ call.status = "ok"
    /\ call.next # call.before /\ Steps(call.move) >= 2

\* C9: on a board in the opening state of even size n, generateMoves
\* returns for X exactly the removal of (n/2-1, n/2-1) and for O exactly
\* the removal of (n/2-1, n/2).
C9_OpeningMoves ==
    (call.op = "generateMoves" /\ Count(call.before, ".") <= 1) =>
        LET h == (size \div 2) - 1
        IN call.moves = IF call.player = "X" THEN << <<h, h, h, h>> >>
                        ELSE << <<h, h + 1, h, h + 1>> >>

\* A board freshly reset: no move made yet, no game lost on its first move.
Fresh == ply = 0 /\ pc \in {"X", "none"}

\* C10: for every even size n, reset / resetGame gives an n x n board with
\* n*n/2 X cells, n*n/2 O cells and no Empty cell, where (r, c) holds X if
\* and only if r + c is even.
C10_ResetCheckerboard ==
    Fresh =>
        /\ DOMAIN board = 0..(size - 1)
        /\ \A r \in 0..(size - 1) : DOMAIN board[r] = 0..(size - 1)
        /\ \A rc \in Cells :
              /\ board[rc[1]][rc[2]] \in {"X", "O"}
              /\ board[rc[1]][rc[2]] = "X" <=> (rc[1] + rc[2]) % 2 = 0
        /\ countSymbol(board, "X") * 2 = size * size
        /\ countSymbol(board, "O") * 2 = size * size
        /\ countSymbol(board, ".") = 0

C10_Witness == Fresh /\ size = 2 * MaxHalf /\ last.op = "none"

\* The side to move has no legal move and no call is in progress.
Stuck(p) == pc = p /\ call.op = "none" /\ Len(generateMoves(board, p)) = 0

C12_InvalidMoveLoses ==
    (last.op = "makeMove" /\ Rejectable(last.before, last.player, last.move)) =>
        (pc = "over" /\ winner = Other(last.player) /\ board = last.before)

\* The search behind a recorded getMove call, with its trace.
Search(c) == getMove(c.kind, c.before, c.player, c.limit)

\* C13: in every search started by getMove, the side to move at an internal
\* node of even depth (a MAX node) is the searching player and at an
\* internal node of odd depth (a MIN node) the searching player's opponent.
C13_LayersAlternate ==
    call.op = "getMove" =>
        \A n \in Search(call).nodes :
            ~n.cutoff =>
                n.player = IF n.depth % 2 = 0 THEN call.player ELSE Other(call.player)

\* A node of the claims' kind "internal": below the depth limit, with a
\* legal move for the side to move.
Internal(n, c) == n.depth < c.limit /\ n.nmoves > 0

\* The backed-up values of the children of node n of minimax, in move order.
ChildVals(n, c) ==
    LET moves == generateMoves(n.b, n.player)
    IN [i \in 1..Len(moves) |->
          minimax(nextBoard(n.b, n.player, moves[i]).next, n.depth + 1,
                  nextPlayer(n.depth, c.player), c.player, c.limit).val]

\* C14: an internal MAX node of minimax returns the greatest of its
\* children's backed-up values, an internal MIN node the least, each paired
\* with a legal move of the node that attains it, and every legal move of
\* the node is applied.
C14_BacksUp ==
    (call.op = "getMove" /\ call.kind = "minimax") =>
        LET s == Search(call)
        IN \A n \in s.nodes :
             Internal(n, call) =>
                LET moves == generateMoves(n.b, n.player)
                    vals == ChildVals(n, call)
                IN /\ \A i \in 1..Len(moves) :
                        /\ IF n.depth % 2 = 0 THEN vals[i] <= n.val ELSE vals[i] >= n.val
                        /\ \E a \in s.applied :
                              a.b = n.b /\ a.player = n.player /\ a.move = moves[i]
                   /\ n.move.kind = "move"
                   /\ \E i \in 1..Len(moves) : moves[i] = n.move.move /\ vals[i] = n.val

\* C15: in every search variant a node is a cutoff exactly when its depth
\* is the depth limit or the side to move has no legal move, and a cutoff
\* node returns the static evaluation of its board with no move (None).
C15_CutoffNodes ==
    call.op = "getMove" =>
        \A n \in Search(call).nodes :
            /\ n.cutoff <=> (n.depth = call.limit \/ n.nmoves = 0)
            /\ n.cutoff => (n.val = evaluation(n.b, call.player) /\ n.move = None)

\* C16 as stated: evaluation returns +infinity whenever the opponent has no
\* legal move, -infinity whenever the searching player has no legal move,
\* and otherwise the searching player's number of moves minus the
\* opponent's.
C16_EvaluationAsStated ==
    call.op = "evaluation" =>
        LET mine == Len(generateMoves(call.before, call.player))
            theirs == Len(generateMoves(call.before, Other(call.player)))
        IN /\ theirs = 0 => call.val = Inf
           /\ mine = 0 => call.val = 0 - Inf
           /\ (mine > 0 /\ theirs > 0) => call.val = mine - theirs

\* C16: evaluation returns +infinity whenever the opponent has no legal
\* move, -infinity when the searching player has no legal move and the
\* opponent has one, and otherwise the searching player's number of moves
\* minus the opponent's.
C16_Evaluation ==
    call.op = "evaluation" =>
        LET mine == Len(generateMoves(call.before, call.player))
            theirs == Len(generateMoves(call.before, Other(call.player)))
        IN /\ theirs = 0 => call.val = Inf
           /\ (mine = 0 /\ theirs > 0) => call.val = 0 - Inf
           /\ (mine > 0 /\ theirs > 0) => call.val = mine - theirs

C16_Witness ==
    /\ call.op = "evaluation" /\ call.val = Inf /\ size = 4
    /\ Len(generateMoves(call.before, call.player)) = 0
    /\ Len(generateMoves(call.before, Other(call.player))) = 0
    /\ Count(call.before, call.player) > 0 /\ Count(call.before, Other(call.player)) > 0

\* The backed-up value of the child of alpha-beta node n along moves[i],
\* searched with the bounds (alpha, beta).
ChildValAB(n, c, moves, i, alpha, beta) ==
    minimaxAlphaBeta(nextBoard(n.b, n.player, moves[i]).next, n.depth + 1,
                     nextPlayer(n.depth, c.player), c.player, c.limit, alpha, beta).val

\* The MIN node of the claim over moves[i..]: a child value below beta
\* lowers beta and records the move; alpha >= beta stops the iteration and
\* returns alpha; without a cutoff beta is returned.
RECURSIVE MinFold(_, _, _, _, _, _)
MinFold(n, c, moves, i, beta, best) ==
    IF i > Len(moves) THEN [val |-> beta, move |-> best, explored |-> Len(moves)]
    ELSE LET v == ChildValAB(n, c, moves, i, n.alpha, beta)
             lowered == IF v < beta THEN v ELSE beta
             recorded == IF v < beta THEN Best(moves[i]) ELSE best
         IN IF n.alpha >= lowered
            THEN [val |-> n.alpha, move |-> recorded, explored |-> i]
            ELSE MinFold(n, c, moves, i + 1, lowered, recorded)

\* The MAX node of the claim over moves[i..]: a child value above alpha
\* raises alpha and records the move; alpha >= beta stops the iteration and
\* returns beta; without a cutoff alpha is returned.
RECURSIVE MaxFold(_, _, _, _, _, _)
MaxFold(n, c, moves, i, alpha, best) ==
    IF i > Len(moves) THEN [val |-> alpha, move |-> best, explored |-> Len(moves)]
    ELSE LET v == ChildValAB(n, c, moves, i, alpha, n.beta)
             raised == IF v > alpha THEN v ELSE alpha
             recorded == IF v > alpha THEN Best(moves[i]) ELSE best
         IN IF raised >= n.beta
            THEN [val |-> n.beta, move |-> recorded, explored |-> i]
            ELSE MaxFold(n, c, moves, i + 1, raised, recorded)

\* Node n returned what the fold says: value, number of children explored
\* and, when the fold recorded a move, that move.
Returned(n, fold) ==
    /\ n.val = fold.val
    /\ n.explored = fold.explored
    /\ fold.move.kind = "move" => n.move = fold.move

\* C17: an internal MIN node of alpha-beta search lowers beta to each child
\* value below it and records that move, stops and returns alpha with the
\* recorded move as soon as alpha >= beta, and otherwise returns beta after
\* all children.
C17_MinNode ==
    (call.op = "getMove" /\ call.kind = "alphabeta") =>
        \A n \in Search(call).nodes :
            (Internal(n, call) /\ n.depth % 2 = 1) =>
                Returned(n, MinFold(n, call, generateMoves(n.b, n.player), 1,
                                    n.beta, noBest))

\* C18: an internal MAX node of alpha-beta search raises alpha to each
\* child value above it and records that move, explores no further sibling
\* and returns beta with the recorded move as soon as alpha >= beta, and
\* otherwise returns alpha after all siblings.
C18_MaxNode ==
    (call.op = "getMove" /\ call.kind = "alphabeta") =>
        \A n \in Search(call).nodes :
            (Internal(n, call) /\ n.depth % 2 = 0) =>
                Returned(n, MaxFold(n, call, generateMoves(n.b, n.player), 1,
                                    n.alpha, noBest))

C18_Witness ==
    /\ call.op = "getMove" /\ call.kind = "alphabeta"
    /\ \E n \in Search(call).nodes :
          /\ Internal(n, call) /\ n.depth % 2 = 0
          /\ n.explored < n.nmoves /\ n.move.kind = "move"
    /\ \E n \in Search(call).nodes :
          /\ Internal(n, call) /\ n.depth = 2
          /\ n.explored = n.nmoves /\ n.nmoves > 1 /\ n.val > n.alpha

\* The backed-up value the player's own search gives the i-th candidate
\* move of a getMove call.
RootVal(c, moves, i) ==
    LET nb == nextBoard(c.before, c.player, moves[i]).next
    IN IF c.kind = "minimax"
       THEN minimax(nb, 0, opponent(c.player), c.player, c.limit).val
       ELSE minimaxAlphaBeta(nb, 0, opponent(c.player), c.player, c.limit, 0 - Inf, Inf).val

\* C19: getMove of a search player returns [] exactly when its side has no
\* legal move; otherwise it returns the earliest move in generator order
\* whose backed-up value is the greatest among the candidates.
C19_EarliestBest ==
    call.op = "getMove" =>
        LET moves == generateMoves(call.before, call.player)
            vals == [i \in 1..Len(moves) |-> RootVal(call, moves, i)]
        IN /\ (call.move = <<>>) <=> (Len(moves) = 0)
           /\ Len(moves) > 0 =>
                 \E i \in 1..Len(moves) :
                    /\ call.move = moves[i]
                    /\ \A j \in 1..Len(moves) : vals[j] <= vals[i]
                    /\ \A j \in 1..(i - 1) : vals[j] < vals[i]

C19_Witness ==
    /\ call.op = "getMove"
    /\ LET moves == generateMoves(call.before, call.player)
           vals == [i \in 1..Len(moves) |-> RootVal(call, moves, i)]
       IN \E i \in 2..Len(moves) :
             /\ call.move = moves[i]
             /\ \E j \in (i + 1)..Len(moves) : vals[j] = vals[i] /\ moves[j] # moves[i]

\* C20: in a getMove call of a search player on a board of a game with its
\* side to move, every nextBoard call of the search applies a move that
\* generateMoves gives for the same board and side, none of them raises
\* GameError, and none escapes getMove.
C20_SearchAppliesGenerated ==
    call.op = "getMove" =>
        /\ call.status = "ok"
        /\ \A a \in Search(call).applied :
              /\ InSeq(a.move, generateMoves(a.b, a.player))
              /\ a.status = "ok"

C20_Witness ==
    /\ call.op = "getMove" /\ call.status = "ok" /\ ply = 0
    /\ \E a \in Search(call).applied :
          /\ a.b # call.before /\ a.status = "ok"
          /\ (a.move[1] # a.move[3] \/ a.move[2] # a.move[4])
    /\ \E a \in Search(call).applied : a.b = call.before /\ a.player = call.player

\* C21: X makes the first move of a game, the turns alternate X, O, X, O,
\* each turn asks one move and applies at most one, and a side is asked for
\* a move only when the move of the turn before was accepted.
C21_TurnsAlternate ==
    [][/\ (pc' \in Sides /\ ply' = 0) => pc' = "X"
       /\ pc' \in Sides => ((pc' = "X") <=> (ply' % 2 = 0))
       /\ (pc' \in Sides /\ ply' > 0) =>
             /\ last'.op = "makeMove" /\ last'.status = "ok"
             /\ last'.player = Other(pc')
       /\ (pc \in Sides /\ last' # last) =>
             /\ last'.player = pc /\ last'.before = board
             /\ last'.status = "ok" => (pc' = Other(pc) /\ ply' = ply + 1)
             /\ last'.status # "ok" => (pc' = "over" /\ ply' = ply)
       /\ ply' # ply => (ply' = 0 \/ (ply' = ply + 1 /\ last' # last))
      ]_vars

C21_Witness ==
    /\ pc = "O" /\ ply = 3 /\ last.op = "makeMove" /\ last.player = "X"
    /\ last.status = "ok" /\ board = last.next /\ board # last.before

\* The reset board with the given cells made Empty.
Emptied(cells) ==
    [r \in 0..(size - 1) |->
        [c \in 0..(size - 1) |-> IF <<r, c>> \in cells THEN "." ELSE reset[r][c]]]

\* C22: the first two accepted moves of a game are the fixed removals at
\* (n/2-1, n/2-1) by X and (n/2-1, n/2) by O, after which exactly these two
\* cells are Empty and every other cell holds its checkerboard value.
C22_OpeningRemovals ==
    LET h == (size \div 2) - 1
    IN /\ ply = 1 => /\ last.player = "X" /\ last.move = <<h, h, h, h>>
                     /\ board = Emptied({<<h, h>>})
       /\ ply = 2 => /\ last.player = "O" /\ last.move = <<h, h + 1, h, h + 1>>
                     /\ board = Emptied({<<h, h>>, <<h, h + 1>>})
                     /\ Count(board, ".") = 2

\* C23: getMove of a search player leaves the board it was given as it was,
\* for every depth limit: every nextBoard call of the search leaves its
\* board argument unchanged and is made on the board its node was entered
\* with, so no branch sees what a sibling branch explored.
C23_SearchLeavesBoard ==
    call.op = "getMove" =>
        /\ board = call.before
        /\ \A s \in {Search(call)} : \A a \in s.applied :
              /\ a.arg = a.b
              /\ \/ a.b = call.before /\ a.player = call.player
                 \/ \E n \in s.nodes : n.b = a.b /\ n.player = a.player

C23_Witness ==
    /\ call.op = "getMove" /\ call.limit >= 2 /\ board = call.before
    /\ \E s \in {Search(call)} :
          /\ Cardinality({a \in s.applied : a.b = call.before}) >= 2
          /\ \E n \in s.nodes :
                /\ n.depth = 1 /\ n.explored >= 2
                /\ Cardinality({a \in s.applied :
                                   a.b = n.b /\ a.status = "ok" /\ a.arg = n.b}) >= 2

\* C24: in konane.py and linh3.py nextBoard raises GameError for every move
\* whose end cell differs from its source both in row and in column, on an
\* opening board or a later one.
C24_DiagonalRaises ==
    (/\ call.op = "nextBoard" /\ variant \in FromVariants
     /\ call.move[1] # call.move[3] /\ call.move[2] # call.move[4]) =>
        call.status = "GameError"

\* Every cell of b holds 'X', 'O' or '.', and the three counts sum to n*n.
WellFormed(b) ==
    /\ DOMAIN b = 0..(size - 1)
    /\ \A r \in 0..(size - 1) :
          /\ DOMAIN b[r] = 0..(size - 1)
          /\ \A c \in 0..(size - 1) : b[r][c] \in {"X", "O", "."}
    /\ countSymbol(b, "X") + countSymbol(b, "O") + countSymbol(b, ".") = size * size

\* C25: in every state of a game every cell of the live board holds 'X',
\* 'O' or '.', so that the three counts sum to n*n, and the live board is
\* replaced only by the result of an accepted move or by reset.
C25_CellsAndReplacement ==
    [][/\ WellFormed(board) /\ WellFormed(board')
       /\ board' # board =>
             \/ board' = reset /\ ply' = 0
             \/ /\ last'.op = "makeMove" /\ last'.status = "ok"
                /\ last'.before = board /\ board' = last'.next
                /\ ply' = ply + 1
      ]_vars

C25_Witness ==
    /\ ply >= 4 /\ last.op = "makeMove" /\ board = last.next
    /\ countSymbol(board, ".") >= 4 /\ countSymbol(board, "X") < (size * size) \div 2
    /\ countSymbol(board, "X") + countSymbol(board, "O") + countSymbol(board, ".") = size * size

\* C26: the win and loss counters change only when playNGames records a
\* completed game, which adds 1 to the wins of one player and 1 to the
\* losses of the other; a turn (getMove) and the start of a game
\* (initialize) leave them; after k recorded games each player has
\* wins + losses = k and the wins of one are the losses of the other.
C26_Counters ==
    [][/\ <<tally'.wins, tally'.losses>> # <<tally.wins, tally.losses>> =>
             /\ pc = "over" /\ pc' = "recorded" /\ winner \in Sides
             /\ tally'.games = tally.games + 1
             /\ \E w \in Players : \E l \in Players \ {w} :
                   /\ tally'.wins = [tally.wins EXCEPT ![w] = @ + 1]
                   /\ tally'.losses = [tally.losses EXCEPT ![l] = @ + 1]
       /\ (pc = "over" /\ pc' = "recorded") => tally'.games = tally.games + 1
       /\ \A p \in Players : tally'.wins[p] + tally'.losses[p] = tally'.games
       /\ tally'.wins["p1"] = tally'.losses["p2"]
       /\ tally'.wins["p2"] = tally'.losses["p1"]
      ]_vars

C26_Witness ==
    /\ pc = "recorded" /\ winner = "X" /\ tally.games = 2
    /\ \E p \in Players : tally.wins[p] = 1 /\ tally.losses[p] = 1

\* The place of a move in the order of the generator: its source cell in
\* row-major order, then its direction (up, right, down, left), then its
\* length.
Direction(m) ==
    IF m[3] < m[1] THEN 1 ELSE IF m[4] > m[2] THEN 2
    ELSE IF m[3] > m[1] THEN 3 ELSE IF m[4] < m[2] THEN 4 ELSE 0

Place(m) == ((m[1] * size + m[2]) * 5 + Direction(m)) * (size + 1) + Steps(m)

\* C27: generateMoves is a function of (board, side): a second call returns
\* the same list, and the list is in row-major order of the side's cells,
\* then up, right, down, left, then increasing jump length, without
\* duplicates.
C27_GeneratorOrder ==
    call.op = "generateMoves" =>
        /\ generateMoves(call.before, call.player) = call.moves
        /\ \A i \in 1..(Len(call.moves) - 1) :
              Place(call.moves[i]) < Place(call.moves[i + 1])

C27_Witness ==
    /\ call.op = "generateMoves" /\ Len(call.moves) >= 3
    /\ \E i \in 1..(Len(call.moves) - 1) :
          LET m == call.moves[i]
              n == call.moves[i + 1]
          IN m[1] = n[1] /\ m[2] = n[2] /\ Direction(m) = Direction(n)
             /\ Steps(m) = 2 /\ Steps(n) = 4
    /\ \E i \in 1..(Len(call.moves) - 1) :
          LET m == call.moves[i]
              n == call.moves[i + 1]
          IN (m[1] # n[1] \/ m[2] # n[2]) /\ Direction(m) > Direction(n)

\* C28: in every variant opponent('X') = 'O' and opponent('O') = 'X', so
\* opponent(opponent(s)) = s and opponent(s) # s for both sides.
C28_OpponentInvolution ==
    call.op = "opponent" =>
        /\ call.player = "X" => call.ret = "O"
        /\ call.player = "O" => call.ret = "X"
        /\ call.ret # call.player
        /\ opponent(call.ret) = call.player

C28_Witness ==
    /\ call.op = "opponent" /\ variant = "linh2" /\ call.player = "O"
    /\ call.ret = "X" /\ opponent(call.ret) = "O"

\* C29: contains returns false for every (row, col) outside 0..n-1 on
\* either axis, negative indices included, and for a cell of the board
\* returns true exactly when the cell holds the symbol.
C29_Contains ==
    call.op = "contains" =>
        LET row == call.move[1]
            col == call.move[2]
            inside == row \in 0..(size - 1) /\ col \in 0..(size - 1)
        IN /\ ~inside => call.ret = FALSE
           /\ inside => (call.ret = (call.before[row][col] = call.player))

C29_Witness ==
    /\ call.op = "contains" /\ call.ret = FALSE /\ call.move = <<0 - 1, size>>
    /\ ply >= 2 /\ call.player = "."
    /\ \E r \in 0..(size - 1) : call.before[r][0] = "."

\* The pieces on b.
Pieces(b) == countSymbol(b, "X") + countSymbol(b, "O")

\* C30: every game between built-in players ends: every accepted move
\* changes the board and removes at least one piece, so a game has at most
\* n * n accepted moves and never goes on with an unchanged board.
C30_GamesEnd ==
    [][/\ ply' = ply + 1 => (board' # board /\ Pieces(board') < Pieces(board))
       /\ ply' <= size * size
       /\ (ply' = size * size) => pc' = "over"
      ]_vars

\* C31: on a non-opening board, in konane.py and linh3.py, a move that
\* nextBoard accepts is a move of generateMoves for that board and side,
\* and the returned board holds as many pieces of the mover as the board
\* given: no piece of the mover is removed.
C31_AcceptedMoveLegal ==
    (/\ call.op = "nextBoard" /\ variant \in FromVariants
     /\ call.status = "ok" /\ Count(call.before, ".") >= 2) =>
        /\ Generated(call)
        /\ Count(call.next, call.player) = Count(call.before, call.player)

\* The i-th candidate move of a getMove call leaves the opponent of the
\* searching player without a legal move.
Winning(c, moves, i) ==
    \E nb \in {nextBoard(c.before, c.player, moves[i])} :
        nb.status = "ok" /\ Len(generateMoves(nb.next, opponent(c.player))) = 0

\* C32: in a getMove call of a search player, for every depth limit, a
\* candidate move that leaves the opponent with no legal move is backed up
\* with +infinity, and when there is such a candidate the value of the move
\* getMove returns is +infinity.
C32_WinningMoveValue ==
    call.op = "getMove" =>
        LET moves == generateMoves(call.before, call.player)
        IN \A i \in 1..Len(moves) :
              Winning(call, moves, i) =>
                  (RootVal(call, moves, i) = Inf /\ call.val = Inf)

\* Every 'X' of b stands on a cell with (r + c) even, every 'O' on a cell
\* with (r + c) odd.
OnColour(b) ==
    \A rc \in Cells :
        /\ b[rc[1]][rc[2]] = "X" => (rc[1] + rc[2]) % 2 = 0
        /\ b[rc[1]][rc[2]] = "O" => (rc[1] + rc[2]) % 2 = 1

\* C33: on every board of a game played from the reset board with generated
\* moves, every 'X' stands on a cell with (r + c) even and every 'O' on a
\* cell with (r + c) odd, and every accepted jump has even length.
C33_ColourParity ==
    /\ OnColour(board)
    /\ (last.op = "makeMove" /\ last.status = "ok") =>
          (Steps(last.move) % 2 = 0 /\ OnColour(last.next))

C33_Witness ==
    /\ last.op = "makeMove" /\ last.status = "ok" /\ ply >= 4
    /\ Steps(last.move) = 4 /\ board = last.next
    /\ board[last.move[3]][last.move[4]] = last.player
    /\ OnColour(board)

\* The move is a removal: its two cells are the same cell.
Removal(m) == m[1] = m[3] /\ m[2] = m[4]

\* C34: in every turn of a game the number of Empty cells does not decrease
\* and the number of pieces of either side does not increase; a board with
\* two or more Empty cells is not followed by a board in the opening state
\* before the next reset; and from the third turn of a game on (after the
\* second move) generateMoves gives the side to move no opening removal.
C34_OpeningNeverReturns ==
    [][(pc \in Sides) =>
         (/\ Count(board', ".") >= Count(board, ".")
          /\ \A p \in Sides : Count(board', p) <= Count(board, p)
          /\ (~openingMove(board)) => ~openingMove(board')
          /\ ply >= 2 =>
                (\A i \in 1..Len(generateMoves(board, pc)) :
                    ~Removal(generateMoves(board, pc)[i])))
      ]_vars

\* C35: in a getMove call of a search player with depth limit L, every node
\* of the search has depth at most L, a node of depth L is a cutoff whose
\* loop runs no iteration, and every nextBoard call of the search is made on
\* the board of the call or on the board of a node of depth below L.
C35_DepthBounded ==
    call.op = "getMove" =>
        \A s \in {Search(call)} :
            /\ \A n \in s.nodes :
                  /\ n.depth >= 0 /\ n.depth <= call.limit
                  /\ n.depth = call.limit => (n.cutoff /\ n.explored = 0 /\ n.move = None)
            /\ \A a \in s.applied :
                  \/ a.b = call.before /\ a.player = call.player
                  \/ \E n \in s.nodes :
                        n.b = a.b /\ n.player = a.player /\ n.depth < call.limit

C35_Witness ==
    /\ call.op = "getMove" /\ call.limit = 2 /\ call.status = "ok"
    /\ \E s \in {Search(call)} :
          /\ \E n \in s.nodes : n.depth = 2 /\ n.cutoff /\ n.nmoves > 0 /\ n.kind = "minimax"
          /\ \E n \in s.nodes : n.depth = 1 /\ n.explored > 1

\* The argument of playNGames that plays 'X' in game i, counted from 1: the
\* first argument in the odd games, the second in the even ones.
PlaysX(i) == IF i % 2 = 1 THEN "p1" ELSE "p2"

\* C36: in playNGames the first argument plays 'X' in game i exactly when i
\* is odd; a game begins only on the reset board, with no move made,
\* whatever the board the game before ended on; and recording game i adds
\* the win to the player that played the winning side in game i and the
\* loss to the other.
C36_SidesSwapAndCredit ==
    [][/\ tally.first = PlaysX(tally.games + 1)
       /\ tally'.first = PlaysX(tally'.games + 1)
       /\ (pc \in {"over", "recorded"} /\ pc' \in Sides) =>
             (board' = reset /\ ply' = 0 /\ winner' = "none" /\ tally' = tally)
       /\ (pc = "over" /\ pc' = "recorded") =>
             LET i == tally.games + 1
                 x == PlaysX(i)
                 o == PlaysX(i + 1)
                 w == IF winner = "X" THEN x ELSE o
                 l == IF winner = "X" THEN o ELSE x
             IN /\ winner \in Sides
                /\ tally'.games = i
                /\ tally'.wins = [tally.wins EXCEPT ![w] = @ + 1]
                /\ tally'.losses = [tally.losses EXCEPT ![l] = @ + 1]
      ]_vars

C36_Witness ==
    /\ tally.games = 2 /\ tally.first = "p1" /\ tally.wins["p2"] = 2
    /\ pc \in Sides /\ ply >= 1 /\ winner = "none"


====
